---- MODULE Spec2Model ----
(***************************************************************************)
(* Model of the ProjectHER2 data utilities (notebooks_code/utils.py and    *)
(* notebooks_code/stats.py).                                               *)
(*                                                                         *)
(* The library is a set of plain functions over pandas tables.  One action *)
(* of the model is one call of one function: the action draws the call's   *)
(* inputs, runs the whole function body and records                        *)
(*   op   - the function that was called,                                  *)
(*   arg  - the arguments as they were passed (values at call time),       *)
(*   heap - the table objects that exist when the call ends; heap[1] is    *)
(*          the caller's table object, later entries are the objects the   *)
(*          function allocated (df.copy(), filtered frames),               *)
(*   ret  - what the call returned or raised.                              *)
(*                                                                         *)
(* Strings are sequences of one-character strings so that trimming, case   *)
(* conversion and regular-expression rewriting are computed, not assumed.  *)
(***************************************************************************)
EXTENDS Integers, Sequences, FiniteSets, TLC

VARIABLES op, arg, heap, ret

vars == <<op, arg, heap, ret>>

\* ---------------------------------------------------------------- bounds

\* longest column name given to to_snake
MaxLen == 4
\* most rows of a generated mutation or drug table
MaxRows == 2
\* most rows of a generated vital_status column (above the 5 reported rows)
MaxVitalRows == 6
\* most records of a generated table for the statistics
MaxStatRows == 4
\* most records of a CSV file
MaxFileRows == 6

\* ------------------------------------------------------------ characters

UpperChars == <<"A","B","C","D","E","F","G","H","I","J","K","L","M",
                "N","O","P","Q","R","S","T","U","V","W","X","Y","Z">>

LowerChars == <<"a","b","c","d","e","f","g","h","i","j","k","l","m",
                "n","o","p","q","r","s","t","u","v","w","x","y","z">>

DigitChars == <<"0","1","2","3","4","5","6","7","8","9">>

\* the function that maps from[i] to to[i]
RECURSIVE PairUp(_, _, _)
PairUp(from, to, n) ==
    IF n = 0 THEN <<>>
    ELSE (from[n] :> to[n]) @@ PairUp(from, to, n - 1)

to_lower == PairUp(UpperChars, LowerChars, Len(UpperChars))

to_upper == PairUp(LowerChars, UpperChars, Len(LowerChars))

digit_value == PairUp(DigitChars, [i \in 1..Len(DigitChars) |-> i - 1], Len(DigitChars))

IsUpper(c) == c \in DOMAIN to_lower

IsLower(c) == c \in DOMAIN to_upper

IsDigit(c) == c \in DOMAIN digit_value

\* \s of the re module, and the characters str.strip() removes
SpaceChars == {" ", "\t", "\n", "\r"}

\* the character class [.\-\s]
SepChars == {".", "-"} \cup SpaceChars

LowerChar(c) == IF IsUpper(c) THEN to_lower[c] ELSE c

UpperChar(c) == IF IsLower(c) THEN to_upper[c] ELSE c

\* the sequence f(1), ..., f(n), with its elements computed once
Tabulate(n, f(_)) == [i \in 1..n |-> f(i)] \o <<>>

\* F(e), with e computed once: the statement "x = e" followed by F(x)
Bind(e, F(_)) == CHOOSE y \in {F(x) : x \in {e}} : TRUE

\* str.lower()
str_lower(s) == Tabulate(Len(s), LAMBDA i : LowerChar(s[i]))

\* str.capitalize(): first character upper-cased, the rest lower-cased
str_capitalize(s) ==
    Tabulate(Len(s),
             LAMBDA i : IF i = 1 THEN UpperChar(s[i]) ELSE LowerChar(s[i]))

RECURSIVE LStrip(_, _)
LStrip(s, drop) ==
    IF s # <<>> /\ Head(s) \in drop THEN LStrip(Tail(s), drop) ELSE s

RECURSIVE RStrip(_, _)
RStrip(s, drop) ==
    IF s # <<>> /\ s[Len(s)] \in drop
    THEN RStrip(SubSeq(s, 1, Len(s) - 1), drop)
    ELSE s

\* str.strip(): leading and trailing whitespace removed
str_strip(s) == RStrip(LStrip(s, SpaceChars), SpaceChars)

\* str.strip("_")
strip_underscores(s) == RStrip(LStrip(s, {"_"}), {"_"})

\* re.sub(<class>+, "_", s): every maximal run of class characters becomes
\* one underscore
RECURSIVE SubRuns(_, _)
SubRuns(s, cls) ==
    IF s = <<>> THEN <<>>
    ELSE IF Head(s) \in cls
         THEN <<"_">> \o SubRuns(LStrip(s, cls), cls)
         ELSE <<Head(s)>> \o SubRuns(Tail(s), cls)

\* re.sub(r"([a-z0-9])([A-Z])", r"\1_\2", s): matches are found left to
\* right and do not overlap; a match consumes both characters
RECURSIVE SplitCamel(_)
SplitCamel(s) ==
    IF Len(s) < 2 THEN s
    ELSE IF (IsLower(s[1]) \/ IsDigit(s[1])) /\ IsUpper(s[2])
         THEN <<s[1], "_", s[2]>> \o SplitCamel(SubSeq(s, 3, Len(s)))
         ELSE <<s[1]>> \o SplitCamel(Tail(s))

\* to_snake with the separator rewriting done last instead of first
to_snake_SepLast(col) ==
    LET s2 == SplitCamel(col)
        s3 == str_lower(s2)
        s4 == strip_underscores(SubRuns(s3, {"_"}))
    IN  SubRuns(s4, SepChars)

\* to_snake without the final strip("_")
to_snake_NoStrip(col) ==
    LET s1 == SubRuns(col, SepChars)
        s2 == SplitCamel(s1)
        s3 == str_lower(s2)
    IN  SubRuns(s3, {"_"})

to_snake(col) ==
    LET s1 == SubRuns(col, SepChars)
        s2 == SplitCamel(s1)
        s3 == str_lower(s2)
    IN  strip_underscores(SubRuns(s3, {"_"}))

\* -------------------------------------------------------- string literals

\* the string literals of utils.py and stats.py, as character sequences

S_her2_final_status == <<"h","e","r","2","_","f","i","n","a","l","_","s","t","a","t","u","s">>

S_her2_status == <<"h","e","r","2","_","s","t","a","t","u","s">>

S_her2_status_final == <<"h","e","r","2","_","s","t","a","t","u","s","_","f","i","n","a","l">>

S_pp_her2 == <<"p","p","_","h","e","r","2">>

S_pp_her2_py1248 == <<"p","p","_","h","e","r","2","_","p","y","1","2","4","8">>

S_er_status == <<"e","r","_","s","t","a","t","u","s">>

S_pr_status == <<"p","r","_","s","t","a","t","u","s">>

S_vital_status == <<"v","i","t","a","l","_","s","t","a","t","u","s">>

S_histological_type == <<"h","i","s","t","o","l","o","g","i","c","a","l","_","t","y","p","e">>

S_H == <<"H">>

S_drug_name == <<"d","r","u","g","_","n","a","m","e">>

S_viability == <<"v","i","a","b","i","l","i","t","y">>

S_dose == <<"d","o","s","e">>

S_cosmic_id == <<"c","o","s","m","i","c","_","i","d">>

S_her2_group == <<"h","e","r","2","_","g","r","o","u","p">>

S_Positive == <<"P","o","s","i","t","i","v","e">>

S_Negative == <<"N","e","g","a","t","i","v","e">>

S_positive == <<"p","o","s","i","t","i","v","e">>

S_pos == <<"p","o","s">>

S_her2_plus == <<"h","e","r","2","+">>

S_1 == <<"1">>

S_true == <<"t","r","u","e">>

S_yes == <<"y","e","s">>

S_high == <<"h","i","g","h">>

S_dead == <<"d","e","a","d">>

S_deceased == <<"d","e","c","e","a","s","e","d">>

S_alive == <<"a","l","i","v","e">>

S_0 == <<"0">>

S_nan == <<"n","a","n">>

S_True == <<"T","r","u","e">>

S_False == <<"F","a","l","s","e">>

S_High == <<"H","i","g","h">>

S_Low == <<"L","o","w">>

\* ----------------------------------------------------------------- cells

\* A cell is null (NaN / None), a string, an integer or a boolean.  Every
\* cell carries the same three fields so that any two cells can be compared.
Null == [t |-> "null", s |-> <<>>, n |-> 0]

Str(s) == [t |-> "str", s |-> s, n |-> 0]

Num(n) == [t |-> "int", s |-> <<>>, n |-> n]

Bool(b) == [t |-> "bool", s |-> <<>>, n |-> IF b THEN 1 ELSE 0]

IsNull(c) == c.t = "null"

RECURSIVE NatToStr(_)
NatToStr(n) ==
    IF n < 10 THEN <<DigitChars[n + 1]>>
    ELSE NatToStr(n \div 10) \o <<DigitChars[(n % 10) + 1]>>

\* str(n) of an integer
IntToStr(n) == IF n < 0 THEN <<"-">> \o NatToStr(0 - n) ELSE NatToStr(n)

RECURSIVE DigitsToNat(_)
DigitsToNat(s) ==
    IF s = <<>> THEN 0
    ELSE 10 * DigitsToNat(SubSeq(s, 1, Len(s) - 1)) + digit_value[s[Len(s)]]

AllDigits(s) == s # <<>> /\ \A i \in 1..Len(s) : IsDigit(s[i])

\* the strings pd.to_numeric reads as a whole number: an optional minus
\* sign and decimal digits
IsNumericStr(s) ==
    \/ AllDigits(s)
    \/ Len(s) > 1 /\ s[1] = "-" /\ AllDigits(Tail(s))

ParseInt(s) == IF s[1] = "-" THEN 0 - DigitsToNat(Tail(s)) ELSE DigitsToNat(s)

\* str(x) of Python for one cell value (NaN prints as nan)
PyStr(c) ==
    CASE c.t = "str"  -> c.s
      [] c.t = "int"  -> IntToStr(c.n)
      [] c.t = "bool" -> IF c.n = 1 THEN S_True ELSE S_False
      [] OTHER        -> S_nan

\* Series.astype(str) for one cell.  Up to pandas 2 a missing value becomes
\* the text "nan"; from pandas 3 it stays missing.  na_text says which of
\* the two the installed pandas does.
astype_str(c, na_text) ==
    IF IsNull(c) /\ ~na_text THEN Null ELSE Str(PyStr(c))

\* Series.str.strip / lower / capitalize: missing values stay missing
cell_strip(c) == IF c.t = "str" THEN Str(str_strip(c.s)) ELSE Null

cell_lower(c) == IF c.t = "str" THEN Str(str_lower(c.s)) ELSE Null

cell_capitalize(c) == IF c.t = "str" THEN Str(str_capitalize(c.s)) ELSE Null

\* pd.to_numeric(errors="coerce") for one cell
to_numeric(c) ==
    CASE c.t = "int"  -> c
      [] c.t = "bool" -> Num(c.n)
      [] c.t = "str"  -> IF IsNumericStr(c.s) THEN Num(ParseInt(c.s)) ELSE Null
      [] OTHER        -> Null

\* Series.clip(low, high) for one cell
clip(c, low, high) ==
    IF IsNull(c) THEN c
    ELSE IF c.n < low THEN Num(low)
    ELSE IF c.n > high THEN Num(high)
    ELSE c

\* Series.fillna(v) for one cell
fillna(c, v) == IF IsNull(c) THEN Num(v) ELSE c

\* ---------------------------------------------------------------- tables

\* A table (DataFrame): column names, row labels (the index) and rows; a
\* row is the sequence of its cells in column order.
Table(cols, rows) ==
    [columns |-> cols,
     index   |-> Tabulate(Len(rows), LAMBDA i : i - 1),
     rows    |-> rows]

HasCol(t, name) == \E i \in 1..Len(t.columns) : t.columns[i] = name

ColPos(t, name) ==
    CHOOSE i \in 1..Len(t.columns) :
        /\ t.columns[i] = name
        /\ \A j \in 1..(i - 1) : t.columns[j] # name

Cell(t, r, name) == t.rows[r][ColPos(t, name)]

NRows(t) == Len(t.rows)

\* df.columns = [f(c) for c in df.columns]
RenameColumns(t, f(_)) ==
    [t EXCEPT !.columns = Tabulate(Len(t.columns), LAMBDA i : f(t.columns[i]))]

\* df[name] = df[name].map(f)
MapCol(t, name, f(_)) ==
    Bind(ColPos(t, name), LAMBDA p :
        [t EXCEPT !.rows =
            Tabulate(Len(t.rows),
                     LAMBDA r : [t.rows[r] EXCEPT ![p] = f(t.rows[r][p])])])

\* df[mask]: the rows r with keep(r), in order, with their labels
FilterRows(t, keep(_)) ==
    Bind(SelectSeq(Tabulate(Len(t.rows), LAMBDA i : i), keep), LAMBDA idx :
        [columns |-> t.columns,
         index   |-> Tabulate(Len(idx), LAMBDA k : t.index[idx[k]]),
         rows    |-> Tabulate(Len(idx), LAMBDA k : t.rows[idx[k]])])

\* df.dropna(subset=names)
dropna(t, names) ==
    FilterRows(t, LAMBDA r : \A nm \in names : ~IsNull(Cell(t, r, nm)))

\* df[cols] for a list of column names
Project(t, cols) ==
    [columns |-> cols,
     index   |-> t.index,
     rows    |-> Tabulate(Len(t.rows), LAMBDA r :
                    Tabulate(Len(cols), LAMBDA j : Cell(t, r, cols[j])))]

\* [c for c in names if c in df.columns]
Present(t, names) == SelectSeq(names, LAMBDA c : HasCol(t, c))

\* ------------------------------------------------------------------ heap

\* The caller's table is heap[CallerRef]; a function allocates new objects
\* behind it.
CallerRef == 1

Alloc(h, t) == [heap |-> Append(h, t), ref |-> Len(h) + 1]

\* "out = df" in place of "out = df.copy()"
df_copy_Alias(h, r) == [heap |-> h, ref |-> r]

\* df.copy(): a new object with the same contents
df_copy(h, r) == Alloc(h, h[r])

Raise(e) == [ok |-> FALSE, err |-> e, ref |-> 0]

Return(r) == [ok |-> TRUE, err |-> "", ref |-> r]

\* ------------------------------------------------------------- load_data

M_mutations_csv == "mutations.csv"

M_drug_sensitivity_csv == "drug-sensitivity.csv"

\* a file of the directory: whether it is there, and its record count
Absent == [exists |-> FALSE, nrows |-> 0]

File(n) == [exists |-> TRUE, nrows |-> n]

\* pd.read_csv(path): the table of the file's records
read_csv(dir, name) == [path |-> <<dir.name, name>>, nrows |-> dir.files[name].nrows]

exists(dir, name) == dir.files[name].exists

\* load_data without the check of drug-sensitivity.csv
load_data_NoDrugCheck(dir) ==
    IF ~exists(dir, M_mutations_csv)
    THEN Raise("FileNotFoundError")
            @@ [missing |-> <<dir.name, M_mutations_csv>>, parsed |-> <<>>]
    ELSE IF ~exists(dir, M_drug_sensitivity_csv)
    THEN Raise("EmptyDataError")
            @@ [missing |-> <<>>,
                parsed |-> <<read_csv(dir, M_mutations_csv).path>>]
    ELSE Return(0)
            @@ [missing |-> <<>>,
                parsed |-> <<read_csv(dir, M_mutations_csv).path,
                             read_csv(dir, M_drug_sensitivity_csv).path>>,
                tables |-> <<read_csv(dir, M_mutations_csv),
                             read_csv(dir, M_drug_sensitivity_csv)>>]

load_data(dir) ==
    IF ~exists(dir, M_mutations_csv)
    THEN Raise("FileNotFoundError")
            @@ [missing |-> <<dir.name, M_mutations_csv>>, parsed |-> <<>>]
    ELSE IF ~exists(dir, M_drug_sensitivity_csv)
    THEN Raise("FileNotFoundError")
            @@ [missing |-> <<dir.name, M_drug_sensitivity_csv>>,
                parsed |-> <<>>]
    ELSE Return(0)
            @@ [missing |-> <<>>,
                parsed |-> <<read_csv(dir, M_mutations_csv).path,
                             read_csv(dir, M_drug_sensitivity_csv).path>>,
                tables |-> <<read_csv(dir, M_mutations_csv),
                             read_csv(dir, M_drug_sensitivity_csv)>>]

\* ----------------------------------------------------------- clean_drugs

clean_drugs(h, drug_df, na_text) ==
    Bind(df_copy(h, drug_df), LAMBDA c :
    Bind([c.heap EXCEPT ![c.ref] = RenameColumns(@, to_snake)], LAMBDA h1 :
        IF ~HasCol(h1[c.ref], S_drug_name) \/ ~HasCol(h1[c.ref], S_viability)
        THEN [heap |-> h1, ret |-> Raise("ValueError")]
        ELSE
    Bind([h1 EXCEPT ![c.ref] =
             MapCol(@, S_drug_name,
                    LAMBDA x : cell_lower(cell_strip(astype_str(x, na_text))))],
         LAMBDA h2 :
    Bind(dropna(h2[c.ref], {S_drug_name, S_viability}), LAMBDA dropped :
    Bind(Present(dropped, <<S_cosmic_id, S_drug_name, S_dose, S_viability>>),
         LAMBDA keep_cols :
    Bind(Alloc(h2, Project(dropped, keep_cols)), LAMBDA out :
        [heap |-> out.heap, ret |-> Return(out.ref)]))))))

\* ------------------------------------------------ validate_drugs_numeric

\* the dose filter with missing doses filled with 0 instead of -1
dose_kept_Fill0(dose, min_dose, keep_zero_dose) ==
    IF keep_zero_dose
    THEN fillna(dose, 0).n >= min_dose
    ELSE fillna(dose, 0).n > min_dose

\* out["dose"].fillna(-1) >= min_dose, or > min_dose
dose_kept(dose, min_dose, keep_zero_dose) ==
    IF keep_zero_dose
    THEN fillna(dose, -1).n >= min_dose
    ELSE fillna(dose, -1).n > min_dose

validate_drugs_numeric(h, df, clip_viability, min_dose, keep_zero_dose) ==
    Bind(df_copy(h, df), LAMBDA c :
    Bind(IF HasCol(c.heap[c.ref], S_dose)
         THEN [c.heap EXCEPT ![c.ref] = MapCol(@, S_dose, to_numeric)]
         ELSE c.heap, LAMBDA h1 :
    Bind(IF HasCol(h1[c.ref], S_viability)
         THEN [h1 EXCEPT ![c.ref] =
                  MapCol(@, S_viability,
                         LAMBDA x : clip(to_numeric(x), clip_viability[1],
                                         clip_viability[2]))]
         ELSE h1, LAMBDA h2 :
    Bind(dropna(h2[c.ref],
                {nm \in {S_drug_name, S_viability} : HasCol(h2[c.ref], nm)}),
         LAMBDA t3 :
    Bind(IF HasCol(t3, S_dose)
         THEN FilterRows(t3, LAMBDA r :
                  dose_kept(Cell(t3, r, S_dose), min_dose, keep_zero_dose))
         ELSE t3, LAMBDA t4 :
    Bind(Alloc(h2, t4), LAMBDA out :
        [heap |-> out.heap, ret |-> Return(out.ref)]))))))

\* -------------------------------------------------------- resolve_signal

\* Python's None, and a found name
None == [found |-> FALSE, name |-> <<>>]

Some(name) == [found |-> TRUE, name |-> name]

\* next((c for c in candidates if c in columns), None)
FirstPresent(columns, candidates) ==
    Bind(SelectSeq(candidates,
                   LAMBDA c : \E i \in 1..Len(columns) : columns[i] = c),
         LAMBDA hits : IF hits = <<>> THEN None ELSE Some(hits[1]))

default_preference == <<S_pp_her2, S_pp_her2_py1248>>

\* preference is None for "argument not given"
resolve_signal(columns, preference) ==
    FirstPresent(columns,
                 IF preference = None THEN default_preference
                 ELSE preference.name)

\* ------------------------------------------------------- clean_mutations

her2_col_candidates == <<S_her2_final_status, S_her2_status, S_her2_status_final>>

positive_labels == {S_positive, S_pos, S_her2_plus, S_1, S_true, S_yes, S_high}

\* the H indicator with the label compared before it is lower-cased
H_of_NoLower(c, na_text) ==
    Bind(cell_strip(astype_str(c, na_text)), LAMBDA x :
        IF x.t = "str" /\ x.s \in positive_labels THEN Num(1) ELSE Num(0))

\* the H indicator of one status cell
H_of(c, na_text) ==
    Bind(cell_lower(cell_strip(astype_str(c, na_text))), LAMBDA x :
        IF x.t = "str" /\ x.s \in positive_labels THEN Num(1) ELSE Num(0))

\* out["H"] = ...: a new last column
AddColumn(t, name, f(_)) ==
    [columns |-> Append(t.columns, name),
     index   |-> t.index,
     rows    |-> Tabulate(Len(t.rows), LAMBDA r : Append(t.rows[r], f(r)))]

\* df[her2_col].isin(["Positive", "Negative"]) for one cell
is_pos_or_neg(x) == x.t = "str" /\ x.s \in {S_Positive, S_Negative}

clean_mutations(h, mutations_df, signal_preference, na_text) ==
    Bind(df_copy(h, mutations_df), LAMBDA c :
    Bind([c.heap EXCEPT ![c.ref] = RenameColumns(@, to_snake)], LAMBDA h1 :
    Bind(FirstPresent(h1[c.ref].columns, her2_col_candidates), LAMBDA her2_col :
        IF her2_col = None
        THEN [heap |-> h1, ret |-> Raise("ValueError")]
        ELSE
    Bind([h1 EXCEPT ![c.ref] =
             MapCol(@, her2_col.name,
                    LAMBDA x : cell_capitalize(cell_strip(
                                   astype_str(x, na_text))))], LAMBDA h2 :
    Bind(FilterRows(h2[c.ref], LAMBDA r :
             is_pos_or_neg(Cell(h2[c.ref], r, her2_col.name))), LAMBDA kept :
    Bind(resolve_signal(kept.columns, signal_preference), LAMBDA signal_col :
        IF signal_col = None
        THEN [heap |-> h2, ret |-> Raise("KeyError")]
        ELSE
    Bind(Present(kept, <<her2_col.name, signal_col.name, S_er_status,
                         S_pr_status, S_vital_status, S_histological_type>>),
         LAMBDA cols_final :
    Bind(dropna(Project(kept, cols_final), {signal_col.name}), LAMBDA out1 :
    Bind(RenameColumns(out1, LAMBDA n :
             IF n = her2_col.name THEN S_her2_final_status ELSE n),
         LAMBDA out2 :
    Bind(AddColumn(out2, S_H, LAMBDA r :
             H_of(Cell(out2, r, S_her2_final_status), na_text)), LAMBDA out3 :
    Bind(Alloc(h2, out3), LAMBDA res :
        [heap |-> res.heap,
         ret  |-> Return(res.ref) @@ [signal_col |-> signal_col.name]]
    )))))))))))

\* --------------------------------------------------- encode_vital_status

\* the dict literal of encode_vital_status: keys and their codes.  The keys
\* 1 and True are one key of a Python dict, as are 0 and False.
mapping ==
    << <<Str(S_dead), 1>>, <<Str(S_deceased), 1>>, <<Str(S_1), 1>>,
       <<Num(1), 1>>,
       <<Str(S_alive), 0>>, <<Str(S_0), 0>>, <<Num(0), 0>> >>

\* mapping.get(key, None)
mapping_get(key) ==
    Bind(SelectSeq(mapping, LAMBDA e : e[1] = key), LAMBDA hits :
        IF hits = <<>> THEN Null ELSE Num(hits[1][2]))

\* the key looked up is always the text str(x).strip().lower()
map_one(x) == mapping_get(Str(str_lower(str_strip(PyStr(x)))))

\* how many offending rows the error message lists
MaxBadRows == 5

FirstN(s, n) == SubSeq(s, 1, IF Len(s) < n THEN Len(s) ELSE n)

encode_vital_status(h, df, col) ==
    Bind(df_copy(h, df), LAMBDA c :
        IF ~HasCol(c.heap[c.ref], col)
        THEN [heap |-> c.heap, ret |-> Return(c.ref) @@ [bad_rows |-> <<>>]]
        ELSE
    Bind([c.heap EXCEPT ![c.ref] = MapCol(@, col, map_one)], LAMBDA h1 :
    Bind(FilterRows(h1[c.ref], LAMBDA r : IsNull(Cell(h1[c.ref], r, col))),
         LAMBDA bad :
        IF bad.index # <<>>
        THEN [heap |-> h1,
              ret  |-> Raise("ValueError")
                         @@ [bad_rows |-> FirstN(bad.index, MaxBadRows)]]
        ELSE [heap |-> h1, ret |-> Return(c.ref) @@ [bad_rows |-> <<>>]])))

\* ---------------------------------------------- add_her2_group_by_median

\* twice the median of a non-empty sequence of integers (twice, to stay in
\* the integers when the two middle values differ by an odd amount)
TwiceMedian(values) ==
    Bind(SortSeq(values, LAMBDA a, b : a < b), LAMBDA s :
        IF Len(s) % 2 = 1 THEN 2 * s[(Len(s) + 1) \div 2]
        ELSE s[Len(s) \div 2] + s[(Len(s) \div 2) + 1])

\* Series.median(): missing values are skipped; NaN when nothing is left
median(t, col) ==
    Bind(SelectSeq(Tabulate(NRows(t), LAMBDA r : Cell(t, r, col)),
                   LAMBDA x : ~IsNull(x)), LAMBDA present :
        IF present = <<>> THEN [nan |-> TRUE, twice |-> 0]
        ELSE [nan |-> FALSE,
              twice |-> TwiceMedian(Tabulate(Len(present),
                                             LAMBDA i : present[i].n))])

\* np.where(signal >= median, "High", "Low"); a comparison with NaN is false
her2_group_of(x, m) ==
    IF ~IsNull(x) /\ ~m.nan /\ 2 * x.n >= m.twice THEN Str(S_High) ELSE Str(S_Low)

add_her2_group_by_median(h, df, signal_col) ==
    Bind(df_copy(h, df), LAMBDA c :
    Bind(median(c.heap[c.ref], signal_col), LAMBDA median_val :
    Bind([c.heap EXCEPT ![c.ref] =
             AddColumn(@, S_her2_group, LAMBDA r :
                 her2_group_of(Cell(c.heap[c.ref], r, signal_col), median_val))],
         LAMBDA h1 :
        [heap |-> h1, ret |-> Return(c.ref) @@ [median |-> median_val]])))

\* -------------------------------------------------- survival_chi2_fisher

\* pd.crosstab(her2_group, vital_status): row labels, column labels and the
\* count of records for each pair; records with a missing value are left out
crosstab(t) ==
    Bind({r \in 1..NRows(t) : ~IsNull(Cell(t, r, S_her2_group))
                              /\ ~IsNull(Cell(t, r, S_vital_status))}, LAMBDA rs :
    Bind({Cell(t, r, S_her2_group) : r \in rs}, LAMBDA labels_r :
    Bind({Cell(t, r, S_vital_status) : r \in rs}, LAMBDA labels_c :
        [rows  |-> labels_r,
         cols  |-> labels_c,
         count |-> [p \in labels_r \X labels_c |->
                       Cardinality({r \in rs :
                           /\ Cell(t, r, S_her2_group) = p[1]
                           /\ Cell(t, r, S_vital_status) = p[2]})]])))

\* for col in [0, 1]: if col not in ct.columns: ct[col] = 0; ct = ct[[0, 1]]
with_both_columns(ct) ==
    [rows  |-> ct.rows,
     cols  |-> {Num(0), Num(1)},
     count |-> [p \in ct.rows \X {Num(0), Num(1)} |->
                   IF p[2] \in ct.cols THEN ct.count[p] ELSE 0]]

RowSum(ct, g) == ct.count[<<g, Num(0)>>] + ct.count[<<g, Num(1)>>]

RECURSIVE SumOver(_, _, _)
SumOver(ct, gs, v) ==
    IF gs = {} THEN 0
    ELSE LET g == CHOOSE x \in gs : TRUE
         IN  ct.count[<<g, v>>] + SumOver(ct, gs \ {g}, v)

ColSum(ct, v) == SumOver(ct, ct.rows, v)

\* scipy's chi2_contingency refuses an empty table and a table with a zero
\* expected frequency, which is a table with an empty row or column
chi2_contingency_raises(ct) ==
    \/ ct.rows = {}
    \/ \E g \in ct.rows : RowSum(ct, g) = 0
    \/ \E v \in ct.cols : ColSum(ct, v) = 0

survival_chi2_fisher(df_with_group) ==
    Bind(with_both_columns(crosstab(df_with_group)), LAMBDA ct :
        IF chi2_contingency_raises(ct)
        THEN Raise("ValueError") @@ [table |-> ct]
        ELSE IF Str(S_High) \notin ct.rows \/ Str(S_Low) \notin ct.rows
        THEN Raise("KeyError") @@ [table |-> ct]
        ELSE Return(0) @@ [table |-> ct])

\* ------------------------------------------------------------ frac_below

\* for one drug: how many of its non-missing viabilities there are, and how
\* many of them are below thresh (the fraction is below / n, NaN when n = 0)
frac_of(d, drug, thresh) ==
    Bind({r \in 1..NRows(d) :
             /\ Cell(d, r, S_drug_name) = Str(str_lower(drug))
             /\ ~IsNull(Cell(d, r, S_viability))}, LAMBDA sub :
        [n     |-> Cardinality(sub),
         below |-> Cardinality({r \in sub :
                                   Cell(d, r, S_viability).n < thresh})])

frac_below(h, df, drugs, thresh, na_text) ==
    Bind(df_copy(h, df), LAMBDA c :
        IF ~HasCol(c.heap[c.ref], S_drug_name)
        THEN [heap |-> c.heap, ret |-> Raise("KeyError")]
        ELSE
    Bind([c.heap EXCEPT ![c.ref] =
             MapCol(@, S_drug_name,
                    LAMBDA x : cell_lower(astype_str(x, na_text)))], LAMBDA h1 :
        IF drugs # <<>> /\ ~HasCol(h1[c.ref], S_viability)
        THEN [heap |-> h1, ret |-> Raise("KeyError")]
        ELSE [heap |-> h1,
              ret  |-> Return(0) @@
                       [out |-> Tabulate(Len(drugs), LAMBDA i :
                                    frac_of(h1[c.ref], drugs[i], thresh))]]))

\* ---------------------------------------------------------------- inputs

\* characters of generated column names: a lower-case letter, an upper-case
\* letter, a digit, the three separators, the underscore and a character
\* that no step of to_snake touches
NameAlphabet == {"a", "B", "2", ".", "-", " ", "_", "@"}

\* all sequences of at most n elements of S
RECURSIVE SeqsUpTo(_, _)
SeqsUpTo(S, n) ==
    IF n = 0 THEN {<<>>}
    ELSE LET shorter == SeqsUpTo(S, n - 1)
         IN  shorter \cup {Append(q, x) : q \in shorter, x \in S}

NameInputs == SeqsUpTo(NameAlphabet, MaxLen)

\* all rows whose i-th cell is drawn from doms[i]
RECURSIVE RowsOver(_)
RowsOver(doms) ==
    IF doms = <<>> THEN {<<>>}
    ELSE {<<x>> \o rest : x \in Head(doms), rest \in RowsOver(Tail(doms))}

TablesOver(cols, doms, n) ==
    {Table(cols, rows) : rows \in SeqsUpTo(RowsOver(doms), n)}

\* directories: a name, and for each of the two files whether it is there
\* and how many records it holds
DirNames == {"data", "."}

FileStates == {Absent} \cup {File(n) : n \in 0..MaxFileRows}

DirInputs ==
    {[name |-> d, files |-> (M_mutations_csv :> m) @@ (M_drug_sensitivity_csv :> s)] :
        d \in DirNames, m \in FileStates, s \in FileStates}

\* cells of generated drug tables
NameCells == {Null, Str(<<" ","L","a","p">>)}

ViabilityCells == {Null, Num(-10), Str(<<"5","0">>), Num(999), Str(<<"a","b","c">>)}

FewViabilityCells == {Null, Num(50), Str(<<"a","b","c">>)}

DoseCells == {Null, Num(0), Num(1), Str(<<"x">>)}

FewDoseCells == {Null, Num(0), Num(1)}

OtherCells == {Num(7)}

\* raw drug tables, with headers as a CSV file may spell them
RawDrugTables ==
    TablesOver(<< <<"d","r","u","g","N","a","m","e">>,
                  <<"V","i","a","b","i","l","i","t","y">>,
                  <<"D","o","s","e">> >>,
               <<NameCells, FewViabilityCells, FewDoseCells>>, MaxRows)
    \cup
    TablesOver(<< <<"C","e","l","l",".","L","i","n","e">>,
                  S_viability,
                  <<"C","O","S","M","I","C","_","I","D">>,
                  <<"D","r","u","g","-","N","a","m","e">> >>,
               <<OtherCells, FewViabilityCells, OtherCells, NameCells>>, MaxRows)
    \cup
    TablesOver(<< <<"V","i","a","b","i","l","i","t","y">>, <<"D","o","s","e">> >>,
               <<FewViabilityCells, FewDoseCells>>, MaxRows)

\* the viabilities of the numeric-coercion example
ExampleDrugTable ==
    Table(<<S_viability>>, << <<Num(-10)>>, <<Num(50)>>, <<Num(999)>> >>)

\* drug tables whose headers are already canonical
DrugTables ==
    TablesOver(<<S_drug_name, S_viability, S_dose>>,
               <<NameCells, {Null, Num(50)}, FewDoseCells>>, MaxRows)
    \cup
    TablesOver(<<S_viability, S_dose>>, <<{Null, Num(-10)}, DoseCells>>, MaxRows)
    \cup
    TablesOver(<<S_drug_name, S_viability>>, <<NameCells, ViabilityCells>>, MaxRows)
    \cup
    TablesOver(<<S_drug_name, S_dose>>, <<NameCells, DoseCells>>, MaxRows)
    \cup
    TablesOver(<<S_viability>>, <<ViabilityCells>>, MaxRows)
    \cup
    {ExampleDrugTable}

\* (clip_viability, min_dose, keep_zero_dose); the first is the default
DrugParams ==
    {<< <<0, 200>>, 0, TRUE >>, << <<0, 200>>, 1, FALSE >>,
     << <<10, 100>>, 0, FALSE >>, << <<10, 100>>, 1, TRUE >>}

\* (drugs, thresh) of frac_below
FracParams == {<< << <<"L","A","P">>, <<"n","a","n">> >>, 50 >>}

\* cells of generated mutation tables
StatusCells == {Str(<<"P","O","S","I","T","I","V","E">>), Str(<<" ","n","e","g","a","t","i","v","e"," ">>),
                Str(<<"E","q","u","i","v","o","c","a","l">>), Null}

FewStatusCells == {Str(<<"p","o","s","i","t","i","v","e">>), Str(<<"N","e","g","a","t","i","v","e">>), Num(1)}

SignalCells == {Null, Num(1), Num(3)}

FewSignalCells == {Null, Num(2)}

FewVitalCells == {Str(<<"D","e","a","d">>), Num(0), Null}

\* the end-to-end example: three Positive and two Negative records
ExampleMutationTable ==
    Table(<< <<"H","E","R","2",".","S","t","a","t","u","s">>,
             <<"p","p","_","H","E","R","2">>,
             <<"E","R",".","S","t","a","t","u","s">> >>,
          << <<Str(S_Positive), Num(1), Num(7)>>,
             <<Str(S_Negative), Num(3), Num(7)>>,
             <<Str(S_Positive), Num(3), Num(7)>>,
             <<Str(S_Negative), Num(1), Num(7)>>,
             <<Str(S_Positive), Num(1), Num(7)>> >>)

\* raw mutation tables, with headers as a CSV file may spell them
RawMutationTables ==
    TablesOver(<< <<"H","E","R","2",".","S","t","a","t","u","s">>,
                  <<"p","p","_","H","E","R","2">>,
                  <<"E","R",".","S","t","a","t","u","s">> >>,
               <<StatusCells, SignalCells, OtherCells>>, MaxRows)
    \cup
    TablesOver(<< <<"V","i","t","a","l"," ","S","t","a","t","u","s">>,
                  <<"p","p","H","E","R","2","_","p","y","1","2","4","8">>,
                  <<"H","E","R","2"," ","S","t","a","t","u","s"," ","F","i","n","a","l">>,
                  <<"p","p","-","H","E","R","2">> >>,
               <<FewVitalCells, FewSignalCells, FewStatusCells, {Num(4)}>>, MaxRows)
    \cup
    TablesOver(<< S_her2_final_status, S_er_status >>,
               <<FewStatusCells, OtherCells>>, MaxRows)
    \cup
    TablesOver(<< <<"S","a","m","p","l","e"," ","I","D">>, <<"p","p","_","H","E","R","2">> >>,
               <<OtherCells, FewSignalCells>>, MaxRows)
    \cup
    {ExampleMutationTable}

\* signal_preference: not given, or a list
SignalPreferences ==
    {None, Some(<<S_pp_her2_py1248, S_pp_her2>>), Some(<<S_pp_her2_py1248>>)}

\* cells of generated vital_status columns: every spelling for short
\* columns, a few for long ones
VitalCells ==
    {Str(<<"D","e","a","d">>), Str(<<" ","A","L","I","V","E"," ">>), Str(<<"d","e","c","e","a","s","e","d">>), Str(S_1), Str(S_0),
     Num(1), Num(0), Bool(TRUE), Bool(FALSE), Str(<<"u","n","k","n","o","w","n">>), Null}

LongVitalCells == {Str(<<"u","n","k","n","o","w","n">>), Num(1), Bool(TRUE)}

\* the column of the vital-status example, with and without its last row
ExampleVitalRows ==
    << <<Str(<<"D","e","a","d">>)>>, <<Str(<<"A","L","I","V","E">>)>>, <<Num(1)>>, <<Num(0)>>,
       <<Str(<<"u","n","k","n","o","w","n">>)>> >>

VitalTables ==
    TablesOver(<<S_vital_status>>, <<VitalCells>>, MaxRows)
    \cup
    TablesOver(<<S_vital_status>>, <<LongVitalCells>>, MaxVitalRows)
    \cup
    TablesOver(<<S_er_status>>, <<LongVitalCells>>, MaxRows)
    \cup
    {Table(<<S_vital_status>>, ExampleVitalRows),
     Table(<<S_vital_status>>, SubSeq(ExampleVitalRows, 1, 4))}

\* records for the statistics: a signal and an encoded vital status
StatTables ==
    TablesOver(<<S_pp_her2, S_vital_status>>,
               <<{Num(1), Num(2), Num(3)}, {Num(0), Num(1)}>>, MaxStatRows)

SignalColumns(t) == {nm \in {S_pp_her2, S_pp_her2_py1248} : HasCol(t, nm)}

\* --------------------------------------------------------------- actions

NoRet == [ok |-> TRUE]

Init ==
    /\ op = "init"
    /\ arg = <<>>
    /\ heap = <<>>
    /\ ret = NoRet

\* the table the previous call returned, when it returned one
Returned == IF ret.ok /\ ret.ref # 0 THEN {heap[ret.ref]} ELSE {}

\* normalize a column name, then normalize the result again
Call_to_snake ==
    /\ op = "init"
    /\ \E s \in NameInputs :
        /\ op' = "to_snake"
        /\ arg' = s
        /\ heap' = <<>>
        /\ ret' = [ok |-> TRUE, value |-> to_snake(s),
                   again |-> to_snake(to_snake(s))]

Call_load_data ==
    /\ op = "init"
    /\ \E dir \in DirInputs :
        /\ op' = "load_data"
        /\ arg' = dir
        /\ heap' = <<>>
        /\ ret' = load_data(dir)

Call_clean_drugs ==
    /\ op = "init"
    /\ \E t \in RawDrugTables, na_text \in BOOLEAN :
        \E r \in {clean_drugs(<<t>>, CallerRef, na_text)} :
            /\ op' = "clean_drugs"
            /\ arg' = [df |-> t, na_text |-> na_text]
            /\ heap' = r.heap
            /\ ret' = r.ret

\* validate_drugs_numeric on a table the caller made, or on the table
\* clean_drugs has just returned
Call_validate_drugs_numeric ==
    /\ op \in {"init", "clean_drugs"}
    /\ \E t \in IF op = "init" THEN DrugTables ELSE Returned :
       \E p \in DrugParams :
        \E r \in {validate_drugs_numeric(<<t>>, CallerRef, p[1], p[2], p[3])} :
            /\ op' = "validate_drugs_numeric"
            /\ arg' = [df |-> t, clip_viability |-> p[1],
                       min_dose |-> p[2], keep_zero_dose |-> p[3]]
            /\ heap' = r.heap
            /\ ret' = r.ret

\* frac_below on the table validate_drugs_numeric has just returned
Call_frac_below ==
    /\ op = "validate_drugs_numeric"
    /\ \E t \in Returned, p \in FracParams, na_text \in BOOLEAN :
        \E r \in {frac_below(<<t>>, CallerRef, p[1], p[2], na_text)} :
            /\ op' = "frac_below"
            /\ arg' = [df |-> t, drugs |-> p[1], thresh |-> p[2]]
            /\ heap' = r.heap
            /\ ret' = r.ret

Call_clean_mutations ==
    /\ op = "init"
    /\ \E t \in RawMutationTables, signal_preference \in SignalPreferences,
          na_text \in BOOLEAN :
        \E r \in {clean_mutations(<<t>>, CallerRef, signal_preference, na_text)} :
            /\ op' = "clean_mutations"
            /\ arg' = [df |-> t, signal_preference |-> signal_preference,
                       na_text |-> na_text]
            /\ heap' = r.heap
            /\ ret' = r.ret

\* encode_vital_status on a table the caller made, or on the table
\* clean_mutations has just returned
Call_encode_vital_status ==
    /\ op \in {"init", "clean_mutations"}
    /\ \E t \in IF op = "init" THEN VitalTables ELSE Returned :
        \E r \in {encode_vital_status(<<t>>, CallerRef, S_vital_status)} :
            /\ op' = "encode_vital_status"
            /\ arg' = [df |-> t, col |-> S_vital_status]
            /\ heap' = r.heap
            /\ ret' = r.ret

\* add_her2_group_by_median on records the caller made, or on the table
\* clean_mutations or encode_vital_status has just returned
Call_add_her2_group_by_median ==
    /\ op \in {"init", "clean_mutations", "encode_vital_status"}
    /\ \E t \in IF op = "init" THEN StatTables ELSE Returned :
       \E signal_col \in SignalColumns(t) :
        \E r \in {add_her2_group_by_median(<<t>>, CallerRef, signal_col)} :
            /\ op' = "add_her2_group_by_median"
            /\ arg' = [df |-> t, signal_col |-> signal_col]
            /\ heap' = r.heap
            /\ ret' = r.ret

\* survival_chi2_fisher on the grouped records, when they carry an encoded
\* vital_status
Call_survival_chi2_fisher ==
    /\ op = "add_her2_group_by_median"
    /\ \E t \in Returned :
        /\ HasCol(t, S_vital_status)
        /\ \A r \in 1..NRows(t) : Cell(t, r, S_vital_status) \in {Num(0), Num(1)}
        /\ op' = "survival_chi2_fisher"
        /\ arg' = [df |-> t]
        /\ heap' = <<t>>
        /\ ret' = survival_chi2_fisher(t)

Next ==
    \/ Call_to_snake
    \/ Call_load_data
    \/ Call_clean_drugs
    \/ Call_validate_drugs_numeric
    \/ Call_frac_below
    \/ Call_clean_mutations
    \/ Call_encode_vital_status
    \/ Call_add_her2_group_by_median
    \/ Call_survival_chi2_fisher

Spec == Init /\ [][Next]_vars

\* ================================================================ claims

TableCalls ==
    {"clean_mutations", "clean_drugs", "validate_drugs_numeric",
     "encode_vital_status", "add_her2_group_by_median", "frac_below"}

\* ---- C1

\* C1: every row of a table that clean_mutations returns has
\* her2_final_status equal to "Positive" or "Negative", has H = 1 when the
\* status is "Positive" and H = 0 otherwise, and has a value in the
\* resolved signal column.
C1_CleanedMutationRows ==
    (op = "clean_mutations" /\ ret.ok) =>
        \A r \in 1..NRows(heap[ret.ref]) :
            /\ Cell(heap[ret.ref], r, S_her2_final_status)
                   \in {Str(S_Positive), Str(S_Negative)}
            /\ Cell(heap[ret.ref], r, S_H) =
                   IF Cell(heap[ret.ref], r, S_her2_final_status) = Str(S_Positive)
                   THEN Num(1) ELSE Num(0)
            /\ ~IsNull(Cell(heap[ret.ref], r, ret.signal_col))

\* a call that dropped a record and returned a Positive one with H = 1
C1_Witness ==
    /\ op = "clean_mutations"
    /\ ret.ok
    /\ NRows(heap[ret.ref]) < NRows(arg.df)
    /\ \E r \in 1..NRows(heap[ret.ref]) :
           /\ Cell(heap[ret.ref], r, S_her2_final_status) = Str(S_Positive)
           /\ Cell(heap[ret.ref], r, S_H) = Num(1)

\* ---- C2, C3

\* the vocabulary as the specification lists it: the words dead, deceased,
\* alive and the digits "1", "0" in any case and with surrounding blanks,
\* the numbers 1 and 0, and the two booleans
InVocabulary(x) ==
    \/ x.t = "str" /\ str_lower(str_strip(x.s))
                        \in {S_dead, S_deceased, S_1, S_alive, S_0}
    \/ x.t = "int" /\ x.n \in {0, 1}
    \/ x.t = "bool"

CodeOf(x) ==
    IF x.t = "str"
    THEN IF str_lower(str_strip(x.s)) \in {S_dead, S_deceased, S_1} THEN 1 ELSE 0
    ELSE x.n

\* C2: when every value of the column is in the vocabulary, the call
\* succeeds and each value is rewritten to its code: 1 for dead, deceased,
\* "1", 1 and true, 0 for alive, "0", 0 and false.
C2_VocabularyIsEncoded ==
    ( /\ op = "encode_vital_status"
      /\ HasCol(arg.df, arg.col)
      /\ \A r \in 1..NRows(arg.df) : InVocabulary(Cell(arg.df, r, arg.col)) )
    =>
    ( /\ ret.ok
      /\ NRows(heap[ret.ref]) = NRows(arg.df)
      /\ \A r \in 1..NRows(arg.df) :
             Cell(heap[ret.ref], r, arg.col) = Num(CodeOf(Cell(arg.df, r, arg.col))) )

\* the labels of the rows whose value is outside the vocabulary
Offending(t, col) ==
    FilterRows(t, LAMBDA r : ~InVocabulary(Cell(t, r, col))).index

\* C3: with the column present and a value outside the vocabulary the call
\* raises and names the labels of the rows outside the vocabulary, in row
\* order, at most five of them; with the column absent it returns the table
\* unchanged.
C3_UnmappedValueFails ==
    (op = "encode_vital_status") =>
        /\ ~HasCol(arg.df, arg.col) => ret.ok /\ heap[ret.ref] = arg.df
        /\ (HasCol(arg.df, arg.col) /\ Offending(arg.df, arg.col) # <<>>) =>
               /\ ~ret.ok
               /\ ret.err = "ValueError"
               /\ ret.bad_rows = FirstN(Offending(arg.df, arg.col), 5)

\* ---- C4

\* the position of the raw column whose normalized name is name
RawColPos(t, name) ==
    CHOOSE i \in 1..Len(t.columns) : to_snake(t.columns[i]) = name

\* the position of the input row with a given label
RowOf(t, label) == CHOOSE i \in 1..NRows(t) : t.index[i] = label

\* C4: no row of the table clean_drugs returns comes from an input row with
\* a null drug_name or a null viability, and every drug_name is the
\* trimmed, lower-cased text of the input name.
C4_NullRowsDropped ==
    (op = "clean_drugs" /\ ret.ok) =>
        \A r \in 1..NRows(heap[ret.ref]) :
            LET src == arg.df.rows[RowOf(arg.df, heap[ret.ref].index[r])]
                nm  == src[RawColPos(arg.df, S_drug_name)]
                vi  == src[RawColPos(arg.df, S_viability)]
            IN  /\ ~IsNull(nm)
                /\ ~IsNull(vi)
                /\ Cell(heap[ret.ref], r, S_drug_name)
                       = Str(str_lower(str_strip(PyStr(nm))))

\* ---- C5

\* the claim's rule for keeping the input row i
C5_Keeps(t, i, min_dose, keep_zero_dose) ==
    /\ ~IsNull(to_numeric(Cell(t, i, S_viability)))
    /\ HasCol(t, S_drug_name) => ~IsNull(Cell(t, i, S_drug_name))
    /\ HasCol(t, S_dose) =>
           LET d == IF IsNull(to_numeric(Cell(t, i, S_dose))) THEN -1
                    ELSE to_numeric(Cell(t, i, S_dose)).n
           IN  IF keep_zero_dose THEN d >= min_dose ELSE d > min_dose

C5_Clipped(v, low, high) == IF v < low THEN low ELSE IF v > high THEN high ELSE v

\* C5: for a table with a viability column, validate_drugs_numeric keeps
\* exactly the rows whose viability is numeric, whose drug_name (if there)
\* is not null and whose dose (if there, -1 when null or not numeric) is
\* >= min_dose, or > min_dose without keep_zero_dose; the kept rows are in
\* input order with the viability clipped into the range, and a row with a
\* null dose is never kept.
C5_CoerceNumeric ==
    (op = "validate_drugs_numeric" /\ HasCol(arg.df, S_viability)) =>
        /\ ret.ok
        /\ heap[ret.ref].index =
               FilterRows(arg.df, LAMBDA i :
                   C5_Keeps(arg.df, i, arg.min_dose, arg.keep_zero_dose)).index
        /\ \A r \in 1..NRows(heap[ret.ref]) :
               Cell(heap[ret.ref], r, S_viability) =
                   Num(C5_Clipped(
                       to_numeric(Cell(arg.df,
                                       RowOf(arg.df, heap[ret.ref].index[r]),
                                       S_viability)).n,
                       arg.clip_viability[1], arg.clip_viability[2]))
        /\ HasCol(arg.df, S_dose) =>
               \A i \in 1..NRows(arg.df) :
                   IsNull(Cell(arg.df, i, S_dose)) =>
                       \A r \in 1..NRows(heap[ret.ref]) :
                           heap[ret.ref].index[r] # arg.df.index[i]

\* a call that dropped a row for its null dose and kept a row whose
\* viability it clipped
C5_Witness ==
    /\ op = "validate_drugs_numeric"
    /\ HasCol(arg.df, S_viability)
    /\ HasCol(arg.df, S_dose)
    /\ \E i \in 1..NRows(arg.df) :
           /\ IsNull(Cell(arg.df, i, S_dose))
           /\ ~IsNull(Cell(arg.df, i, S_viability))
    /\ \E r \in 1..NRows(heap[ret.ref]) :
           Cell(heap[ret.ref], r, S_viability)
               # Cell(arg.df, RowOf(arg.df, heap[ret.ref].index[r]), S_viability)

\* the example of the specification: -10, 50, 999 become 0, 50, 200
C5_ExampleWitness ==
    /\ op = "validate_drugs_numeric"
    /\ arg.df = ExampleDrugTable
    /\ arg.clip_viability = <<0, 200>>
    /\ heap[ret.ref].rows = << <<Num(0)>>, <<Num(50)>>, <<Num(200)>> >>

\* ---- C6, C7

\* ^[a-z0-9]+(_[a-z0-9]+)*$
IsCanonicalColumnName(s) ==
    /\ s # <<>>
    /\ \A i \in 1..Len(s) : IsLower(s[i]) \/ IsDigit(s[i]) \/ s[i] = "_"
    /\ s[1] # "_"
    /\ s[Len(s)] # "_"
    /\ \A i \in 1..(Len(s) - 1) : ~(s[i] = "_" /\ s[i + 1] = "_")

\* C6 as stated: to_snake returns a canonical column name for every string.
C6_AlwaysCanonical ==
    (op = "to_snake") => IsCanonicalColumnName(ret.value)

\* letters, digits, underscores and the separators to_snake rewrites
IsNameChar(c) ==
    IsLower(c) \/ IsUpper(c) \/ IsDigit(c) \/ c = "_" \/ c \in SepChars

\* C6 as amended: for every string made only of ASCII letters, digits,
\* underscores, '.', '-' and whitespace that holds at least one letter or
\* digit, to_snake returns a canonical column name.
C6_CanonicalForNameChars ==
    ( /\ op = "to_snake"
      /\ \A i \in 1..Len(arg) : IsNameChar(arg[i])
      /\ \E i \in 1..Len(arg) : IsLower(arg[i]) \/ IsUpper(arg[i]) \/ IsDigit(arg[i]) )
    => IsCanonicalColumnName(ret.value)

\* a name with a camel-case boundary and leading and trailing separators
C6_Witness ==
    /\ op = "to_snake"
    /\ arg = <<".", "a", "B", " ">>
    /\ ret.value = <<"a", "_", "b">>

\* C7: normalizing a normalized name changes nothing.
C7_Idempotent ==
    (op = "to_snake") => ret.again = ret.value

\* a name that normalization changes, and that it then leaves alone
C7_Witness ==
    /\ op = "to_snake"
    /\ ret.value # arg
    /\ ret.value # <<>>
    /\ \E i \in 1..Len(arg) : IsUpper(arg[i])
    /\ \E i \in 1..Len(arg) : arg[i] \in SepChars
    /\ ret.again = ret.value

\* ---- C8

\* C8 as stated: whenever drug-sensitivity.csv is absent the error names
\* drug-sensitivity.csv and nothing was parsed; with both files there the
\* call returns both tables.
C8_DrugFileAlwaysNamed ==
    (op = "load_data") =>
        /\ ~exists(arg, M_drug_sensitivity_csv) =>
               /\ ~ret.ok
               /\ ret.err = "FileNotFoundError"
               /\ ret.missing = <<arg.name, M_drug_sensitivity_csv>>
               /\ ret.parsed = <<>>
        /\ (exists(arg, M_mutations_csv) /\ exists(arg, M_drug_sensitivity_csv)) =>
               ret.ok /\ Len(ret.tables) = 2

\* C8 as amended: with mutations.csv there and drug-sensitivity.csv absent
\* the error names drug-sensitivity.csv; with mutations.csv absent it names
\* mutations.csv, whether or not drug-sensitivity.csv is there; in both
\* cases nothing was parsed; with both files there the call returns the
\* table of each file.
C8_FirstMissingFileNamed ==
    (op = "load_data") =>
        /\ (exists(arg, M_mutations_csv) /\ ~exists(arg, M_drug_sensitivity_csv)) =>
               /\ ~ret.ok
               /\ ret.err = "FileNotFoundError"
               /\ ret.missing = <<arg.name, M_drug_sensitivity_csv>>
               /\ ret.parsed = <<>>
        /\ ~exists(arg, M_mutations_csv) =>
               /\ ~ret.ok
               /\ ret.err = "FileNotFoundError"
               /\ ret.missing = <<arg.name, M_mutations_csv>>
               /\ ret.parsed = <<>>
        /\ (exists(arg, M_mutations_csv) /\ exists(arg, M_drug_sensitivity_csv)) =>
               /\ ret.ok
               /\ ret.tables = <<read_csv(arg, M_mutations_csv),
                                 read_csv(arg, M_drug_sensitivity_csv)>>

\* a directory that holds mutations.csv only
C8_Witness ==
    /\ op = "load_data"
    /\ exists(arg, M_mutations_csv)
    /\ ~exists(arg, M_drug_sensitivity_csv)
    /\ ret.missing = <<arg.name, M_drug_sensitivity_csv>>

\* ---- C9

\* the number of records of group g with vital status v
RecordCount(t, g, v) ==
    Cardinality({r \in 1..NRows(t) :
        Cell(t, r, S_her2_group) = g /\ Cell(t, r, S_vital_status) = v})

\* C9, for records among which both vital statuses occur: the table has a
\* cell for each of High, Low and each of 0, 1, holding the number of such
\* records (zero when there is none), and the lookups in the table do not
\* fail.
C9_MissingCellsAreZero ==
    ( /\ op = "survival_chi2_fisher"
      /\ \A v \in {Num(0), Num(1)} :
             \E r \in 1..NRows(arg.df) : Cell(arg.df, r, S_vital_status) = v )
    =>
    ( /\ ret.err # "KeyError"
      /\ \A g \in {Str(S_High), Str(S_Low)}, v \in {Num(0), Num(1)} :
             /\ <<g, v>> \in DOMAIN ret.table.count
             /\ ret.table.count[<<g, v>>] = RecordCount(arg.df, g, v) )

\* ---- C10

\* C10: after a call of a cleaning or statistics function, returned or
\* failed, on a fresh table or on the table an earlier call returned, the
\* caller's table is as it was passed.
C10_InputNotMutated ==
    (op \in TableCalls) => heap[CallerRef] = arg.df

\* a call in a sequence that failed after rewriting its working copy
C10_Witness ==
    /\ op = "encode_vital_status"
    /\ ~ret.ok
    /\ HasCol(arg.df, S_H)
    /\ Len(heap) > CallerRef
    /\ heap[CallerRef + 1] # arg.df
    /\ heap[CallerRef] = arg.df

====
